---------------------------- MODULE Spec2Model ----------------------------
(***************************************************************************)
(* A model of opencog-gym.py: the CartPole decision loop (cartpole_step),  *)
(* its probabilistic primitives (tv_to_beta, tv_rv, thompson_sample,       *)
(* decide), the schematic helpers (plan, get_action, deduce) and the       *)
(* action translation (action_to_gym).                                     *)
(*                                                                         *)
(* Two specifications share the module:                                    *)
(*   Spec    the tick, one action per phase of cartpole_step, driven by    *)
(*           the scheduling loop;                                          *)
(*   SpecFn  the functions on their own, applied to inputs drawn from      *)
(*           bounded sets.                                                 *)
(* Real numbers are exact rationals <<n, d>> with d > 0.                   *)
(***************************************************************************)
EXTENDS Integers, Sequences, FiniteSets, TLC

VARIABLES
    \* globals of the program
    observation, cartpole_step_count,
    \* the environment, as far as the program acts on it
    env_closed, env_steps, env_last,
    \* position in cartpole_step and its locals
    pc, i, timestamped_obs, goal, css, actdist, action, pblty, gym_action,
    reward, done, timestamped_reward, ret,
    \* the scheduling loop
    loop,
    \* history of the run
    obs0, tick_steps, n_terminal, draws, phases,
    \* a function applied on its own (SpecFn)
    fn, arg, out

globals == <<observation, cartpole_step_count>>
envvars == <<env_closed, env_steps, env_last>>
locals  == <<i, timestamped_obs, goal, css, actdist, action, pblty, gym_action,
             reward, done, timestamped_reward>>
history == <<obs0, tick_steps, n_terminal, draws, phases>>
tickvars == <<globals, envvars, pc, locals, ret, loop, history>>
fnvars  == <<fn, arg, out>>
vars    == <<tickvars, fnvars>>

---------------------------------------------------------------------------
(* Bounds *)

MaxAngle      == 1   \* pole angles -MaxAngle..MaxAngle
MaxTicks      == 2   \* ticks per run
MaxReward     == 1   \* rewards 0..MaxReward
MaxVariate    == 2   \* variates k/(MaxVariate+1), k in 1..MaxVariate
MaxClauses    == 3   \* clauses in a body conjunction
MaxSchematics == 3   \* schematics given to deduce
MaxDist       == 3   \* entries of an action distribution
MaxGrid       == 2   \* strengths k/MaxGrid, counts k/MaxGrid
MaxCountNum   == 3   \* counts 0/MaxGrid..MaxCountNum/MaxGrid
MaxPrior      == 2   \* priors 1..MaxPrior

---------------------------------------------------------------------------
(* Python values *)

PyNone      == [tag |-> "None"]
PyInt(n)    == [tag |-> "int", val |-> n]
Value(v)    == [tag |-> "value", val |-> v]
Raise(e)    == [tag |-> "raise", val |-> e]
Unset       == [tag |-> "unset"]

(* Exact arithmetic on rationals <<n, d>>, d > 0 *)
R(n)         == <<n, 1>>
RatAdd(x, y) == <<x[1] * y[2] + y[1] * x[2], x[2] * y[2]>>
RatSub(x, y) == <<x[1] * y[2] - y[1] * x[2], x[2] * y[2]>>
RatMul(x, y) == <<x[1] * y[1], x[2] * y[2]>>
RatLess(x, y) == x[1] * y[2] < y[1] * x[2]
RatLeq(x, y)  == x[1] * y[2] <= y[1] * x[2]
RatEq(x, y)   == x[1] * y[2] = y[1] * x[2]

---------------------------------------------------------------------------
(* Atoms *)

TruthValue(mean, count) == [mean |-> mean, count |-> count]
TRUE_TV == TruthValue(R(1), R(1))

SchemaNode(name)    == [type |-> "SchemaNode", name |-> name]
PredicateNode(name) == [type |-> "PredicateNode", name |-> name]
VariableNode(name)  == [type |-> "VariableNode", name |-> name]
TypeNode(name)      == [type |-> "TypeNode", name |-> name]
TimeNode(name)      == [type |-> "TimeNode", name |-> name]
\* NumberNode(str(x)): the node holds the number the string denotes
NumberNode(x)       == [type |-> "NumberNode", name |-> x]
Link(type, outgoing) == [type |-> type, out |-> outgoing]
LinkTV(type, outgoing, tv) == [type |-> type, out |-> outgoing, tv |-> tv]

go_right == SchemaNode("Go Right")
go_left  == SchemaNode("Go Left")
go_up    == SchemaNode("Go Up")    \* a schema with no gym mapping
Schemas  == {go_right, go_left, go_up}

---------------------------------------------------------------------------
(* Truth-value probability model *)

\* A sign slip in b: the positive count is added instead of subtracted
tv_to_beta_signslip(tv, prior_a, prior_b) ==
    LET count == tv.count
        pos_count == RatMul(count, tv.mean)
    IN  [a |-> RatAdd(prior_a, pos_count),
         b |-> RatAdd(RatAdd(prior_b, count), pos_count)]

tv_to_beta(tv, prior_a, prior_b) ==
    LET count == tv.count
        pos_count == RatMul(count, tv.mean)
        a == RatAdd(prior_a, pos_count)
        b == RatSub(RatAdd(prior_b, count), pos_count)
    IN  [a |-> a, b |-> b]

\* The grid standing for the open interval (0, 1), the support of a beta
Variates == {<<k, MaxVariate + 1>> : k \in 1..MaxVariate}

\* tv_rv: the variates beta.rvs() can return for tv, under the default priors
tv_rv(tv) ==
    LET beta == tv_to_beta(tv, R(1), R(1))
    IN  IF RatLess(R(0), beta.a) /\ RatLess(R(0), beta.b) THEN Variates ELSE {}

\* max(actps, key=...) keeps the first of the greatest; the slip keeps the last
RECURSIVE max_from_last(_, _, _)
max_from_last(s, k, best) ==
    IF k > Len(s) THEN best
    ELSE max_from_last(s, k + 1, IF RatLeq(best[2], s[k][2]) THEN s[k] ELSE best)

py_max_last(s) ==
    IF Len(s) = 0 THEN Raise("ValueError") ELSE Value(max_from_last(s, 2, s[1]))

RECURSIVE max_from(_, _, _)
max_from(s, k, best) ==
    IF k > Len(s) THEN best
    ELSE max_from(s, k + 1, IF RatLess(best[2], s[k][2]) THEN s[k] ELSE best)

py_max(s) ==
    IF Len(s) = 0 THEN Raise("ValueError") ELSE Value(max_from(s, 2, s[1]))

\* thompson_sample: every outcome, with the variates drawn for it, in call order
thompson_sample(ad) ==
    { [res |-> py_max([k \in 1..Len(ad) |-> <<ad[k][1], rvs[k]>>]), rvs |-> rvs] :
        rvs \in {f \in [1..Len(ad) -> Variates] :
                    \A k \in 1..Len(ad) : f[k] \in tv_rv(ad[k][2])} }

decide(ad) == thompson_sample(ad)

---------------------------------------------------------------------------
(* Translation to and from Atomese *)

observation_to_atomese(obs) ==
    << Link("EvaluationLink", <<PredicateNode("Cart Position"), NumberNode(obs[1])>>),
       Link("EvaluationLink", <<PredicateNode("Cart Velocity"), NumberNode(obs[2])>>),
       Link("EvaluationLink", <<PredicateNode("Pole Angle"), NumberNode(obs[3])>>),
       Link("EvaluationLink", <<PredicateNode("Cart Velocity At Tip"), NumberNode(obs[4])>>) >>

reward_to_atomese(rw) ==
    Link("EvaluationLink", <<PredicateNode("Reward"), NumberNode(rw)>>)

\* The slip: every symbol that is not "Go Right" is taken for "Go Left"
action_to_gym_default(act) ==
    IF go_right = act THEN PyInt(0) ELSE PyInt(1)

action_to_gym(act) ==
    IF go_right = act THEN PyInt(0)
    ELSE IF go_left = act THEN PyInt(1)
    ELSE PyNone

make_goal(ci) == reward_to_atomese(R(1))

\* The slip: the index after the increment
timestamp_next(atom, ti, tv) ==
    LinkTV("AtTimeLink", <<atom, TimeNode(ToString(ti + 1))>>, tv)

timestamp(atom, ti, tv) ==
    LinkTV("AtTimeLink", <<atom, TimeNode(ToString(ti))>>, tv)

---------------------------------------------------------------------------
(* Cognitive schematics *)

\* The slip: the last execution clause instead of the first
get_action_last(cs) ==
    LET cnjs == cs.out[3].out
        idx == {k \in 1..Len(cnjs) : cnjs[k].type = "ExecutionLink"}
    IN  IF idx = {} THEN Raise("StopIteration")
        ELSE Value(cnjs[CHOOSE k \in idx : \A j \in idx : j <= k].out[1])

get_action(cs) ==
    LET cnjs == cs.out[3].out
        idx == {k \in 1..Len(cnjs) : cnjs[k].type = "ExecutionLink"}
    IN  IF idx = {} THEN Raise("StopIteration")
        ELSE Value(cnjs[CHOOSE k \in idx : \A j \in idx : k <= j].out[1])

Schematic(time_offset, cnjs, tv) ==
    LinkTV("PredictiveImplicationScopeLink",
           << Link("TypedVariableLink", <<VariableNode("$angle"), TypeNode("NumberNode")>>),
              time_offset,
              Link("AndLink", cnjs),
              Link("EvaluationLink", <<PredicateNode("Reward"), NumberNode(R(1))>>) >>,
           tv)

pole_angle_clause == Link("EvaluationLink", <<PredicateNode("Pole Angle"), VariableNode("$angle")>>)
angle_positive == Link("GreaterThanLink", <<VariableNode("$angle"), NumberNode(R(0))>>)
angle_negative == Link("GreaterThanLink", <<NumberNode(R(0)), VariableNode("$angle")>>)
ExecutionLink(schema) == Link("ExecutionLink", <<schema>>)

cs_r(expiry) ==
    Schematic(NumberNode(R(expiry)),
              <<pole_angle_clause, angle_positive, ExecutionLink(go_right)>>,
              TruthValue(<<9, 10>>, <<1, 10>>))

cs_l(expiry) ==
    Schematic(NumberNode(R(expiry)),
              <<pole_angle_clause, angle_negative, ExecutionLink(go_left)>>,
              TruthValue(<<9, 10>>, <<1, 10>>))

\* The slip: only the schematics whose context holds of the stored observation
plan_relevant(g, expiry) ==
    IF observation[3] > 0 THEN <<cs_r(expiry)>>
    ELSE IF observation[3] < 0 THEN <<cs_l(expiry)>>
    ELSE <<cs_l(expiry), cs_r(expiry)>>

plan(g, expiry) == <<cs_l(expiry), cs_r(expiry)>>

\* The orders in which a Python set of these elements can be iterated
Orderings(S) ==
    {l \in [1..Cardinality(S) -> S] : \A a, b \in 1..Cardinality(S) : a # b => l[a] # l[b]}

\* The slip: a list of the actions instead of a set
deduce_list(schematics) ==
    LET rs == [k \in 1..Len(schematics) |-> get_action(schematics[k])]
    IN  IF \E k \in 1..Len(schematics) : rs[k].tag = "raise"
        THEN {Raise("StopIteration")}
        ELSE {Value([k \in 1..Len(schematics) |-> <<rs[k].val, TruthValue(R(1), R(0))>>])}

\* deduce: every list the function can return (a set has no fixed order)
deduce(schematics) ==
    LET rs == [k \in 1..Len(schematics) |-> get_action(schematics[k])]
    IN  IF \E k \in 1..Len(schematics) : rs[k].tag = "raise"
        THEN {Raise("StopIteration")}
        ELSE LET actions == {rs[k].val : k \in 1..Len(schematics)}
                 tv == TruthValue(R(1), R(0))
             IN  {Value([k \in 1..Len(l) |-> <<l[k], tv>>]) : l \in Orderings(actions)}

---------------------------------------------------------------------------
(* The environment: an opaque transition function *)

Observations == {<<0, 0, pa, 0>> : pa \in (0 - MaxAngle)..MaxAngle}
Rewards      == {R(r) : r \in 0..MaxReward}

\* env.step(code): any (observation, reward, done), or an exception
env_step(code) ==
    {Raise("EnvError")} \cup
    {Value(<<o, r, d>>) : o \in Observations, r \in Rewards, d \in BOOLEAN}

---------------------------------------------------------------------------
(* cartpole_step, phase by phase *)

TickInit ==
    /\ observation \in Observations
    /\ cartpole_step_count = 0
    /\ env_closed = FALSE /\ env_steps = 0 /\ env_last = Unset
    /\ pc = "idle"
    /\ i = Unset /\ timestamped_obs = Unset /\ goal = Unset /\ css = Unset
    /\ actdist = Unset /\ action = Unset /\ pblty = Unset /\ gym_action = Unset
    /\ reward = Unset /\ done = Unset /\ timestamped_reward = Unset
    /\ ret = Unset
    /\ loop = "running"
    /\ obs0 = observation /\ tick_steps = 0 /\ n_terminal = 0
    /\ draws = <<>> /\ phases = <<>>

FnIdle == fn = "none" /\ arg = Unset /\ out = Unset

Init == TickInit /\ FnIdle

\* The loop calls cartpole_step: read the counter, timestamp the observation
Observe ==
    /\ loop = "running" /\ pc = "idle"
    /\ cartpole_step_count < MaxTicks
    /\ i' = cartpole_step_count
    /\ timestamped_obs' =
          LET atomese_obs == observation_to_atomese(observation)
          IN  [k \in 1..Len(atomese_obs) |->
                  timestamp(atomese_obs[k], cartpole_step_count, TRUE_TV)]
    /\ goal' = Unset /\ css' = Unset /\ actdist' = Unset /\ action' = Unset
    /\ pblty' = Unset /\ gym_action' = Unset /\ reward' = Unset /\ done' = Unset
    /\ timestamped_reward' = Unset /\ ret' = Unset
    /\ obs0' = observation /\ tick_steps' = 0 /\ draws' = <<>>
    /\ phases' = <<"observe">>
    /\ pc' = "goal"
    /\ UNCHANGED <<globals, envvars, loop, n_terminal, fnvars>>

GoalConstruction ==
    /\ pc = "goal"
    /\ goal' = make_goal(i)
    /\ phases' = Append(phases, "goal")
    /\ pc' = "plan"
    /\ UNCHANGED <<globals, envvars, i, timestamped_obs, css, actdist, action, pblty,
                   gym_action, reward, done, timestamped_reward, ret, loop,
                   obs0, tick_steps, n_terminal, draws, fnvars>>

Planning ==
    /\ pc = "plan"
    /\ LET expiry == 1 IN css' = plan(goal, expiry)
    /\ phases' = Append(phases, "plan")
    /\ pc' = "deduce"
    /\ UNCHANGED <<globals, envvars, i, timestamped_obs, goal, actdist, action, pblty,
                   gym_action, reward, done, timestamped_reward, ret, loop,
                   obs0, tick_steps, n_terminal, draws, fnvars>>

Deduction ==
    /\ pc = "deduce"
    /\ \E r \in deduce(css) :
          IF r.tag = "raise"
          THEN /\ pc' = "raised" /\ ret' = r
               /\ UNCHANGED <<actdist, phases>>
          ELSE /\ actdist' = r.val
               /\ phases' = Append(phases, "deduce")
               /\ pc' = "decide"
               /\ UNCHANGED ret
    /\ UNCHANGED <<globals, envvars, i, timestamped_obs, goal, css, action, pblty,
                   gym_action, reward, done, timestamped_reward, loop,
                   obs0, tick_steps, n_terminal, draws, fnvars>>

Decision ==
    /\ pc = "decide"
    /\ \E o \in decide(actdist) :
          IF o.res.tag = "raise"
          THEN /\ pc' = "raised" /\ ret' = o.res
               /\ UNCHANGED <<action, pblty, draws, phases>>
          ELSE /\ action' = o.res.val[1]
               /\ pblty' = o.res.val[2]
               /\ draws' = o.rvs
               /\ phases' = Append(phases, "decide")
               /\ pc' = "translate"
               /\ UNCHANGED ret
    /\ UNCHANGED <<globals, envvars, i, timestamped_obs, goal, css, actdist,
                   gym_action, reward, done, timestamped_reward, loop,
                   obs0, tick_steps, n_terminal, fnvars>>

ActionTranslation ==
    /\ pc = "translate"
    /\ gym_action' = action_to_gym(action)
    /\ phases' = Append(phases, "translate")
    /\ pc' = "step"
    /\ UNCHANGED <<globals, envvars, i, timestamped_obs, goal, css, actdist, action,
                   pblty, reward, done, timestamped_reward, ret, loop,
                   obs0, tick_steps, n_terminal, draws, fnvars>>

\* observation, reward, done, info = env.step(gym_action)
Execution ==
    /\ pc = "step"
    /\ env_steps' = env_steps + 1
    /\ tick_steps' = tick_steps + 1
    /\ env_last' = gym_action
    /\ \E r \in env_step(gym_action) :
          IF r.tag = "raise"
          THEN /\ pc' = "raised" /\ ret' = r
               /\ UNCHANGED <<observation, reward, done, phases>>
          ELSE /\ observation' = r.val[1]
               /\ reward' = r.val[2]
               /\ done' = r.val[3]
               /\ phases' = Append(phases, "step")
               /\ pc' = "reward"
               /\ UNCHANGED ret
    /\ UNCHANGED <<cartpole_step_count, env_closed, i, timestamped_obs, goal, css,
                   actdist, action, pblty, gym_action, timestamped_reward, loop,
                   obs0, n_terminal, draws, fnvars>>

RewardIngestion ==
    /\ pc = "reward"
    /\ timestamped_reward' = timestamp(reward_to_atomese(reward), i, TRUE_TV)
    /\ phases' = Append(phases, "reward")
    /\ pc' = "advance"
    /\ UNCHANGED <<globals, envvars, i, timestamped_obs, goal, css, actdist, action,
                   pblty, gym_action, reward, done, ret, loop,
                   obs0, tick_steps, n_terminal, draws, fnvars>>

\* cartpole_step_count += 1, without the increment
Advance_stuck ==
    /\ pc = "advance"
    /\ phases' = Append(phases, "advance")
    /\ pc' = "signal"
    /\ UNCHANGED <<globals, envvars, locals, ret, loop,
                   obs0, tick_steps, n_terminal, draws, fnvars>>

Advance ==
    /\ pc = "advance"
    /\ cartpole_step_count' = cartpole_step_count + 1
    /\ phases' = Append(phases, "advance")
    /\ pc' = "signal"
    /\ UNCHANGED <<observation, envvars, locals, ret, loop,
                   obs0, tick_steps, n_terminal, draws, fnvars>>

\* "if done:" with the continuation value returned all the same
Terminate_continue ==
    /\ pc = "signal" /\ done = TRUE
    /\ ret' = TruthValue(R(1), R(1))
    /\ phases' = Append(phases, "signal")
    /\ pc' = "returned"
    /\ UNCHANGED <<globals, envvars, locals, loop,
                   obs0, tick_steps, n_terminal, draws, fnvars>>

Terminate ==
    /\ pc = "signal" /\ done = TRUE
    /\ env_closed' = TRUE
    /\ ret' = TruthValue(R(0), R(1))
    /\ n_terminal' = n_terminal + 1
    /\ phases' = Append(phases, "signal")
    /\ pc' = "returned"
    /\ UNCHANGED <<globals, env_steps, env_last, locals, loop,
                   obs0, tick_steps, draws, fnvars>>

Continue ==
    /\ pc = "signal" /\ done = FALSE
    /\ ret' = TruthValue(R(1), R(1))
    /\ phases' = Append(phases, "signal")
    /\ pc' = "returned"
    /\ UNCHANGED <<globals, envvars, locals, loop,
                   obs0, tick_steps, n_terminal, draws, fnvars>>

\* An exception out of a call or a print of the phase at hand (the atomspace,
\* the output stream, an interrupt): the tick is left where it stands
FalliblePhases == {"goal", "plan", "deduce", "decide", "translate", "reward"}

Failure ==
    /\ pc \in FalliblePhases
    /\ ret' = Raise("Exception")
    /\ pc' = "raised"
    /\ UNCHANGED <<globals, envvars, locals, loop, history, fnvars>>

---------------------------------------------------------------------------
(* The scheduling loop around cartpole_step *)

HarnessContinue ==
    /\ pc = "returned" /\ ret = TruthValue(R(1), R(1))
    /\ pc' = "idle"
    /\ UNCHANGED <<globals, envvars, locals, ret, loop, history, fnvars>>

HarnessStop ==
    /\ pc = "returned" /\ ret = TruthValue(R(0), R(1))
    /\ pc' = "idle" /\ loop' = "stopped"
    /\ UNCHANGED <<globals, envvars, locals, ret, history, fnvars>>

HarnessAbort ==
    /\ pc = "raised"
    /\ pc' = "idle" /\ loop' = "aborted"
    /\ UNCHANGED <<globals, envvars, locals, ret, history, fnvars>>

Next ==
    \/ Observe \/ GoalConstruction \/ Planning \/ Deduction \/ Decision
    \/ ActionTranslation \/ Execution \/ RewardIngestion \/ Advance
    \/ Terminate \/ Continue \/ Failure
    \/ HarnessContinue \/ HarnessStop \/ HarnessAbort

Spec == Init /\ [][Next]_vars

---------------------------------------------------------------------------
(* The functions on their own: SpecFn *)

RECURSIVE SeqsUpTo(_, _)
SeqsUpTo(S, n) ==
    IF n = 0 THEN {<<>>}
    ELSE SeqsUpTo(S, n - 1) \cup [1..n -> S]

Range(s) == {s[k] : k \in 1..Len(s)}

Clauses == {pole_angle_clause} \cup {ExecutionLink(sc) : sc \in Schemas}
Bodies  == SeqsUpTo(Clauses, MaxClauses)

ExecutionClauses(cs) ==
    {k \in 1..Len(cs.out[3].out) : cs.out[3].out[k].type = "ExecutionLink"}

\* Schematics given to deduce: the action before or after the context, or missing
DeduceInputs ==
    {Schematic(NumberNode(R(1)), b, TruthValue(<<9, 10>>, <<1, 10>>)) :
        b \in {<<pole_angle_clause>>}
              \cup {<<pole_angle_clause, ExecutionLink(sc)>> : sc \in Schemas}
              \cup {<<ExecutionLink(sc), pole_angle_clause>> : sc \in Schemas}}

DistEntries ==
    {<<sc, tv>> : sc \in Schemas,
                  tv \in {TruthValue(R(1), R(0)), TruthValue(<<9, 10>>, <<1, 10>>)}}

Strengths == {<<k, MaxGrid>> : k \in 0..MaxGrid}
Counts    == {<<k, MaxGrid>> : k \in 0..MaxCountNum}
Priors    == {R(p) : p \in 1..MaxPrior}

FnInputs(f) ==
    CASE f = "action_to_gym" -> Schemas
      [] f = "get_action" ->
            {Schematic(NumberNode(R(1)), b, TruthValue(<<9, 10>>, <<1, 10>>)) : b \in Bodies}
      [] f = "deduce" -> SeqsUpTo(DeduceInputs, MaxSchematics)
      [] f = "decide" -> SeqsUpTo(DistEntries, MaxDist)
      [] f = "tv_to_beta" ->
            {[tv1 |-> TruthValue(s1, c), tv2 |-> TruthValue(s2, c),
              prior_a |-> pa, prior_b |-> pb] :
                s1 \in Strengths, s2 \in Strengths, c \in Counts,
                pa \in Priors, pb \in Priors}

Functions == {"action_to_gym", "get_action", "deduce", "decide", "tv_to_beta"}

InitFn ==
    /\ TickInit /\ observation = <<0, 0, 0, 0>>
    /\ fn \in Functions
    /\ arg \in FnInputs(fn)
    /\ out = Unset

Call_action_to_gym ==
    /\ fn = "action_to_gym" /\ out = Unset
    /\ out' = action_to_gym(arg)
    /\ UNCHANGED <<tickvars, fn, arg>>

Call_get_action ==
    /\ fn = "get_action" /\ out = Unset
    /\ out' = get_action(arg)
    /\ UNCHANGED <<tickvars, fn, arg>>

Call_deduce ==
    /\ fn = "deduce" /\ out = Unset
    /\ out' \in deduce(arg)
    /\ UNCHANGED <<tickvars, fn, arg>>

Call_decide ==
    /\ fn = "decide" /\ out = Unset
    /\ out' \in decide(arg)
    /\ UNCHANGED <<tickvars, fn, arg>>

Call_tv_to_beta ==
    /\ fn = "tv_to_beta" /\ out = Unset
    /\ out' = <<tv_to_beta(arg.tv1, arg.prior_a, arg.prior_b),
                tv_to_beta(arg.tv2, arg.prior_a, arg.prior_b)>>
    /\ UNCHANGED <<tickvars, fn, arg>>

NextFn ==
    \/ Call_action_to_gym \/ Call_get_action \/ Call_deduce
    \/ Call_decide \/ Call_tv_to_beta

SpecFn == InitFn /\ [][NextFn]_vars

---------------------------------------------------------------------------
(* Properties of the tick (Spec) *)

TerminalTV     == TruthValue(R(0), R(1))
ContinuationTV == TruthValue(R(1), R(1))

\* C1: a tick whose environment step reports done closes the environment and
\* returns (0,1); one whose step reports not done returns (1,1) and leaves the
\* environment open; over a run (0,1) is returned at most once, the loop stops
\* on it, and the environment is never stepped after it.
C1_TerminalSignal ==
    /\ [](pc = "returned" =>
            /\ done = TRUE  => (ret = TerminalTV /\ env_closed)
            /\ done = FALSE => (ret = ContinuationTV /\ ~env_closed))
    /\ [](n_terminal <= 1)
    /\ []((loop = "stopped") => n_terminal = 1)
    /\ [][n_terminal >= 1 => (env_steps' = env_steps /\ n_terminal' = n_terminal)]_vars

C1_Witness ==
    /\ loop = "stopped" /\ n_terminal = 1 /\ ret = TerminalTV /\ env_closed
    /\ cartpole_step_count = 2 /\ env_steps = 2

\* C2: cartpole_step_count starts at 0, changes only by +1, and stands at one
\* more than the index read at the start of the tick whenever a tick returns.
C2_StepCount ==
    /\ cartpole_step_count = 0
    /\ [][cartpole_step_count' = cartpole_step_count
          \/ cartpole_step_count' = cartpole_step_count + 1]_vars
    /\ [](pc = "returned" => cartpole_step_count = i + 1)
    /\ [](pc \in {"goal", "plan", "deduce", "decide", "translate", "step", "reward", "advance"}
            => cartpole_step_count = i)

C2_Witness ==
    /\ pc = "returned" /\ ret = ContinuationTV /\ i = 1 /\ cartpole_step_count = 2

\* C3 (as claimed): a tick that fails leaves the stored observation and the
\* step counter as they were when the tick started.
C3_NoPartialCommit ==
    pc = "raised" => (observation = obs0 /\ cartpole_step_count = i)

\* C9: the phases of a tick run in the fixed order; a returned tick has stepped
\* the environment exactly once, with the code of the action decided in that
\* tick; the plan carries expiry 1; observation and reward carry the step index
\* read at the start of the tick.
PhaseOrder ==
    <<"observe", "goal", "plan", "deduce", "decide", "translate", "step",
      "reward", "advance", "signal">>

C9_TickOrder ==
    /\ Len(phases) <= Len(PhaseOrder)
    /\ phases = SubSeq(PhaseOrder, 1, Len(phases))
    /\ pc = "returned" =>
          /\ phases = PhaseOrder
          /\ tick_steps = 1
          /\ \E k \in 1..Len(actdist) : actdist[k][1] = action
          /\ env_last = (IF action = go_right THEN PyInt(0) ELSE PyInt(1))
          /\ \A k \in 1..Len(css) : css[k].out[2] = NumberNode(R(1))
          /\ cartpole_step_count = i + 1
          /\ \A k \in 1..Len(timestamped_obs) :
                timestamped_obs[k].out[2] = TimeNode(ToString(cartpole_step_count - 1))
          /\ timestamped_obs[3].out[1].out[2] = NumberNode(obs0[3])
          /\ timestamped_reward.out[2] = TimeNode(ToString(cartpole_step_count - 1))
          /\ timestamped_reward.out[1].out[2] = NumberNode(reward)

C9_Witness ==
    /\ pc = "returned" /\ cartpole_step_count = 2 /\ action = go_left
    /\ env_last = PyInt(1) /\ timestamped_reward.out[2] = TimeNode("1")

\* C10: whatever the stored observation, the distribution decided on holds
\* both actions with the truth value (1,0), either action can come out of
\* decide, and the action decided is fixed by the order of the distribution
\* and the variates drawn alone (the first greatest variate).
FirstArgmax(vs) ==
    CHOOSE k \in 1..Len(vs) :
        /\ \A j \in 1..Len(vs) : RatLeq(vs[j], vs[k])
        /\ \A j \in 1..(k - 1) : RatLess(vs[j], vs[k])

C10_ObservationBlind ==
    pc \in {"decide", "translate"} =>
        /\ {actdist[k][1] : k \in 1..Len(actdist)} = {go_right, go_left}
        /\ \A k \in 1..Len(actdist) : actdist[k][2] = TruthValue(R(1), R(0))
        /\ \A a \in {go_right, go_left} :
              \E o \in decide(actdist) : o.res.tag = "value" /\ o.res.val[1] = a
        /\ pc = "translate" => action = actdist[FirstArgmax(draws)][1]

C10_Witness ==
    /\ pc = "translate" /\ observation[3] > 0 /\ action = go_left

---------------------------------------------------------------------------
(* Properties of the functions (SpecFn) *)

Called(f) == fn = f /\ out # Unset

\* C4 (as claimed): action_to_gym gives 0 for "Go Right", 1 for "Go Left" and
\* fails with UnknownAction for every other symbol.
C4_UnknownActionFails ==
    Called("action_to_gym") =>
        /\ arg = go_right => out = PyInt(0)
        /\ arg = go_left  => out = PyInt(1)
        /\ arg \notin {go_right, go_left} => out = Raise("UnknownAction")

\* C5 (as claimed): get_action returns the action of the one execution clause
\* of the body, and fails when the body has none or more than one.
C5_OneExecutionClause ==
    Called("get_action") =>
        LET ex == ExecutionClauses(arg)
        IN  /\ Cardinality(ex) = 1 =>
                  out = Value(arg.out[3].out[CHOOSE k \in ex : TRUE].out[1])
            /\ Cardinality(ex) # 1 => out.tag = "raise"

WellFormed(cs) == Cardinality(ExecutionClauses(cs)) = 1
ActionOf(cs)   == cs.out[3].out[CHOOSE k \in ExecutionClauses(cs) : TRUE].out[1]

C7_OneEntryPerAction ==
    (Called("deduce") /\ \A k \in 1..Len(arg) : WellFormed(arg[k])) =>
        /\ out.tag = "value"
        /\ \A a, b \in 1..Len(out.val) : a # b => out.val[a][1] # out.val[b][1]
        /\ {out.val[k][1] : k \in 1..Len(out.val)} = {ActionOf(arg[k]) : k \in 1..Len(arg)}
        /\ \A k \in 1..Len(out.val) : out.val[k][2] = TruthValue(R(1), R(0))

C7_Witness ==
    /\ Called("deduce") /\ Len(arg) = 3 /\ \A k \in 1..3 : WellFormed(arg[k])
    /\ ActionOf(arg[1]) = ActionOf(arg[3]) /\ ActionOf(arg[1]) # ActionOf(arg[2])
    /\ out.tag = "value" /\ Len(out.val) = 2

\* C8 (as claimed): for every count >= 0, a greater strength gives a strictly
\* greater a and a strictly smaller b.
C8_StrictForEveryCount ==
    (Called("tv_to_beta") /\ RatLess(arg.tv1.mean, arg.tv2.mean)) =>
        /\ RatLess(out[1].a, out[2].a)
        /\ RatLess(out[2].b, out[1].b)

\* C8 (amended): a greater strength never gives a smaller a nor a greater b;
\* with a count of 0 both a and b are the priors; with a count above 0 the
\* change is strict.
C8_Monotone ==
    (Called("tv_to_beta") /\ RatLess(arg.tv1.mean, arg.tv2.mean)) =>
        /\ RatLeq(out[1].a, out[2].a) /\ RatLeq(out[2].b, out[1].b)
        /\ RatEq(arg.tv1.count, R(0)) =>
              /\ RatEq(out[1].a, arg.prior_a) /\ RatEq(out[2].a, arg.prior_a)
              /\ RatEq(out[1].b, arg.prior_b) /\ RatEq(out[2].b, arg.prior_b)
        /\ RatLess(R(0), arg.tv1.count) =>
              /\ RatLess(out[1].a, out[2].a) /\ RatLess(out[2].b, out[1].b)
        /\ RatEq(out[1].a, RatAdd(arg.prior_a, RatMul(arg.tv1.count, arg.tv1.mean)))
        /\ RatEq(RatAdd(out[1].a, out[1].b),
                 RatAdd(RatAdd(arg.prior_a, arg.prior_b), arg.tv1.count))

C8_Witness ==
    /\ Called("tv_to_beta") /\ RatLess(arg.tv1.mean, arg.tv2.mean)
    /\ RatLess(R(0), arg.tv1.count) /\ RatLess(R(0), arg.tv1.mean)
    /\ RatLess(out[1].a, out[2].a) /\ RatLess(out[2].b, out[1].b)

=============================================================================
